---- MODULE Spec2Model ----
(***************************************************************************)
(* Orchestration state machine of the zelfhosted chat backend.             *)
(*                                                                         *)
(* Three graphs are modelled over one set of variables:                    *)
(*   - the graph of server/fastapi/graph.py (chatbot, tool_node,           *)
(*     post_processor, formatter):              Spec, SpecFair, SpecAny    *)
(*   - the graph of server/fastapi/main.py (chatbot, tool_node) behind     *)
(*     /chat and /chat/stream, from the arrival of the request to the      *)
(*     response:                                MainSpec, MainSpecFair     *)
(*   - the supervisor graph that tests/test_graph.py exercises             *)
(*     (preprocessor, chatbot, tool_node, supervisor, exit_node), whose    *)
(*     source is not in the repository snapshot and is modelled from its  *)
(*     specification and its tests:             SupSpec, SupSpecFair       *)
(* and four functions called on their own:                                 *)
(*   - tool_node on a state that requests tools: ToolSpec                  *)
(*   - _post_process_tool_result on a raw result: PostSpec                 *)
(*   - _get_access_token of tools/spotify.py, by two conversations at      *)
(*     once, and by one:            SpotifySpec, SpotifySoloSpec           *)
(*   - supervisor_should_continue on a state:   RouteSpec                  *)
(*                                                                         *)
(* pc names the node LangGraph runs next; a node and the conditional edge  *)
(* that follows it form one step.  The language models are oracles: their  *)
(* outputs are drawn with \E from small sets.                              *)
(***************************************************************************)
EXTENDS Integers, Sequences, FiniteSets, TLC

VARIABLES
    pc,                  \* node to run next, "END" after the graph finished, "failed" after a raise
    messages,            \* State.messages (the most recent MaxMsgs entries)
    iteration_count,     \* State.iteration_count
    should_continue,     \* State.should_continue: "None", "True" or "False"
    raw_final_response,  \* State.raw_final_response: "None" or the content the formatter was given
    supervisor_turns,    \* supervisor graph: State.supervisor_turns
    supervisor_decision, \* supervisor graph: State.supervisor_decision: "None", "PASS", "RETRY"
    invoked,             \* which language model the last step invoked ("none" when it invoked none)
    rounds,              \* number of tool_node rounds completed so far
    all_tools,           \* every output of the agent model so far requested at least one tool
    model_calls,         \* supervisor graph: number of agent-model invocations so far
    answers,             \* supervisor graph: number of agent outputs without tool requests so far
    retries,             \* supervisor graph: number of supervisor -> chatbot returns so far
    verdicts,            \* supervisor graph: the verdicts recorded so far, in order
    step_log,            \* what the last step wrote to the stream writer, in order, with an
                         \* "invoke" entry where it executed a tool
    model_input,         \* the messages the last step handed to the agent model (<<>> when none)
    eval_text,           \* the text the evaluation model answered in the last step (<<>> when none)
    user_location,       \* State.user_location: None or the caller's coordinates
    pp_call,             \* _post_process_tool_result called on its own: tool name and raw result
    pp_result,           \* ... and the text it returned
    stream,              \* main.py: the events /chat/stream has yielded to the caller (the
                         \* last MaxStream of them)
    done_events,         \* main.py: the number of `done` events yielded
    request,             \* main.py: the request being served (endpoint and body)
    http_response,       \* main.py: the response of /chat, or of a rejected request
    token_cache,         \* spotify.py: _token_cache
    callers,             \* spotify.py: where each conversation stands in _get_access_token
    now                  \* spotify.py: time.time()

vars == <<pc, messages, iteration_count, should_continue, raw_final_response,
          supervisor_turns, supervisor_decision, invoked, rounds, all_tools,
          model_calls, answers, retries, verdicts,
          step_log, model_input, eval_text, user_location, pp_call, pp_result,
          stream, done_events, request, http_response, token_cache, callers, now>>

streamVars == <<stream, done_events>>
boundaryVars == <<request, http_response>>
cacheVars == <<token_cache, callers, now>>
restVars == <<pc, messages, iteration_count, should_continue, raw_final_response,
              supervisor_turns, supervisor_decision, invoked, rounds, all_tools,
              model_calls, answers, retries, verdicts, step_log, model_input, eval_text,
              user_location, pp_call, pp_result, stream, done_events, request,
              http_response>>
frameVars == <<user_location, pp_call, pp_result, stream, done_events, request, http_response,
               token_cache, callers, now>>
supVars == <<supervisor_turns, supervisor_decision, model_calls, answers, retries, verdicts>>

(***************************************************************************)
(* Bounds of the model and constants of the program.                       *)
(***************************************************************************)
MaxMsgs == 4            \* entries of State.messages the model keeps (the most recent ones)
MaxCalls == 2           \* tool calls one model output requests at most
MaxStream == 6          \* events of the response stream the model keeps (the most recent ones)
MaxTime == 3            \* the clock of spotify.py stops here (one unit is 300 seconds)
MaxTurns == 3           \* supervisor_should_continue is applied to supervisor_turns up to here
MaxRounds == 2          \* main.py: tool rounds the model counts (the graph has no ceiling)
MAX_ITERATIONS == 5
MAX_SUPERVISOR_TURNS == 1

\* tools/__init__.py registers fifteen tools; the model output names one that is
\* registered or one that is not.
tools_by_name == {"get_weather", "get_polymarket_opportunities", "get_arxiv_articles",
                  "get_latest_photos", "post_tweet", "get_linear_issues",
                  "get_mercury_balance", "get_subway_arrivals",
                  "get_train_arrivals_at_station", "get_nearby_subway_stations",
                  "get_nearby_subway_arrivals", "search_youtube_song", "exa_search",
                  "exa_find_similar", "exa_answer"}
RequestedNames == {"get_weather", "not_a_tool"}

(***************************************************************************)
(* Texts whose characters the code inspects are sequences of one-character *)
(* strings.                                                                *)
(***************************************************************************)
LowerCase == <<"a", "b", "c", "d", "e", "f", "g", "h", "i", "j", "k", "l", "m",
               "n", "o", "p", "q", "r", "s", "t", "u", "v", "w", "x", "y", "z">>
UpperCase == <<"A", "B", "C", "D", "E", "F", "G", "H", "I", "J", "K", "L", "M",
               "N", "O", "P", "Q", "R", "S", "T", "U", "V", "W", "X", "Y", "Z">>
Whitespace == {" ", "\t", "\n"}

\* str.upper() and str.lower()
UpperChar(c) ==
    IF \E i \in 1 .. 26 : LowerCase[i] = c
    THEN UpperCase[CHOOSE i \in 1 .. 26 : LowerCase[i] = c] ELSE c
LowerChar(c) ==
    IF \E i \in 1 .. 26 : UpperCase[i] = c
    THEN LowerCase[CHOOSE i \in 1 .. 26 : UpperCase[i] = c] ELSE c
Upper(text) == [i \in 1 .. Len(text) |-> UpperChar(text[i])]
Lower(text) == [i \in 1 .. Len(text) |-> LowerChar(text[i])]

\* str.strip()
Strip(text) ==
    LET solid == {i \in 1 .. Len(text) : text[i] \notin Whitespace}
    IN IF solid = {} THEN <<>>
       ELSE SubSeq(text, CHOOSE i \in solid : \A j \in solid : i <= j,
                         CHOOSE i \in solid : \A j \in solid : j <= i)

\* token in text
Contains(text, token) ==
    \E k \in 0 .. Len(text) - Len(token) : SubSeq(text, k + 1, k + Len(token)) = token

(***************************************************************************)
(* Messages.                                                               *)
(***************************************************************************)
HumanMessage == [type |-> "human", content |-> "question", tool_calls |-> <<>>, tool_call_id |-> 0]
AIMessage(content, calls) ==
    [type |-> "ai", content |-> content, tool_calls |-> calls, tool_call_id |-> 0]
ToolMessage(content, id) ==
    [type |-> "tool", content |-> content, tool_calls |-> <<>>, tool_call_id |-> id]

Last(s) == s[Len(s)]

\* hasattr(last_message, "tool_calls") and last_message.tool_calls
HasToolCalls(m) == m.type = "ai" /\ Len(m.tool_calls) > 0

\* The add_messages reducer appends the node's messages to the state's.  The
\* model keeps the last MaxMsgs entries of the result: the nodes read
\* messages[-1] only, and the language models are oracles.
Window(s) == IF Len(s) <= MaxMsgs THEN s ELSE SubSeq(s, Len(s) - MaxMsgs + 1, Len(s))

\* Mutant of add_messages: the node's messages take the place of the last one.
add_messages_replacing(left, right) == Window(SubSeq(left, 1, Len(left) - 1) \o right)

\* add_messages: the reducer of State.messages.
add_messages(left, right) == Window(left \o right)

\* Call identifiers are made by the model provider and are unique in a
\* conversation: the model draws the smallest identifiers not in use.
IdPool == 1 .. ((MaxMsgs + 1) * MaxCalls)
UsedIds(ms) ==
    UNION { {ms[i].tool_calls[j].id : j \in 1 .. Len(ms[i].tool_calls)} \cup {ms[i].tool_call_id}
            : i \in 1 .. Len(ms) }
Smallest(S) == CHOOSE x \in S : \A y \in S : x <= y
RECURSIVE FreshIds(_, _)
FreshIds(free, k) ==
    IF k = 0 THEN <<>>
    ELSE LET x == Smallest(free) IN <<x>> \o FreshIds(free \ {x}, k - 1)

\* The argument mapping of a tool call: the "location" key when the model
\* gave one, and the coordinates, "None" while the keys are not in the mapping.
NoArgs == [has_location |-> FALSE, location |-> <<>>, user_lat |-> "None", user_lon |-> "None"]
Args(location) == [NoArgs EXCEPT !.has_location = TRUE, !.location = location]

\* "NYC"
NYC == <<"N", "Y", "C">>

\* The tool requests of the agent model: a name and an argument mapping.
Requests == {[name |-> n, args |-> Args(NYC)] : n \in RequestedNames}
RequestSeqs(requests) == UNION { [1 .. k -> requests] : k \in 1 .. MaxCalls }
ToolCalls(ms, reqs) ==
    LET ids == FreshIds(IdPool \ UsedIds(ms), Len(reqs))
    IN [i \in 1 .. Len(reqs) |-> [name |-> reqs[i].name, args |-> reqs[i].args, id |-> ids[i]]]

\* The outputs the agent model can give on `ms`: a final answer, or 1..MaxCalls
\* tool calls.
AgentOutputs(ms) ==
    {AIMessage("answer", <<>>)}
        \cup {AIMessage("", ToolCalls(ms, reqs)) : reqs \in RequestSeqs(Requests)}

(***************************************************************************)
(* Tool results.  A text the code does not look into is its identity, its  *)
(* length and whether a truncation marker follows it.  A raw result        *)
(* is plain text, the JSON text of an object with the keys "videos",       *)
(* "results", "text" and "error" (a key that is not in the object is       *)
(* NoField, or the empty list), or the JSON text of another value.         *)
(***************************************************************************)
Text(id, len) == [id |-> id, len |-> len, marker |-> FALSE]
NoField == Text("<absent>", 0)
Absent == "<absent>"

PlainResult(id, len) ==
    [json |-> FALSE, shape |-> "text", id |-> id, len |-> len,
     videos |-> <<>>, results |-> <<>>, text |-> NoField, error |-> NoField]
JsonResult(id, len, videos, results, text, error) ==
    [json |-> TRUE, shape |-> "object", id |-> id, len |-> len,
     videos |-> videos, results |-> results, text |-> text, error |-> error]
\* JSON text that json.loads turns into a list or a string.
JsonValue(id, len, shape) ==
    [json |-> TRUE, shape |-> shape, id |-> id, len |-> len,
     videos |-> <<>>, results |-> <<>>, text |-> NoField, error |-> NoField]

\* Mutant of RawText: the text is lost.
RawTextEmptied(result) == Text("", 0)

\* str(result)
RawText(result) == Text(result.id, result.len)

Videos ==
    <<[id |-> "abc123", title |-> "Test Song", channel |-> "TestChannel"],
      [id |-> "def456", title |-> "Song 2", channel |-> Absent]>>
SpotifyResults ==
    <<[type |-> "track", id |-> "sp1", name |-> "Track 1", artist |-> "Artist 1", owner |-> Absent],
      [type |-> "playlist", id |-> "pl1", name |-> "My Playlist", artist |-> Absent, owner |-> "user123"]>>

\* What the tools return.  search_youtube_song returns the JSON text of
\* {"query", "videos", "text"}, or of {"error", "videos": []} when the search
\* failed or found nothing.
WeatherReport == PlainResult("Sunny, 72F", 10)
YoutubeFound ==
    JsonResult("youtube json", 300, Videos, <<>>, Text("Found 2 videos", 14), NoField)
YoutubeFailed ==
    JsonResult("youtube error json", 60, <<>>, <<>>, NoField, Text("No songs found", 14))
\* get_weather has no exception handler: an error of the HTTP transport leaves
\* the tool as an exception, which Raised stands for.
NoResult == PlainResult("None", 4)
Raised == PlainResult("<raised>", 0)
ToolOutputs(tool_name) ==
    IF tool_name = "search_youtube_song" THEN {YoutubeFound, YoutubeFailed}
    ELSE IF tool_name = "get_weather" THEN {WeatherReport, Raised}
    ELSE IF tool_name \in tools_by_name THEN {WeatherReport}
    ELSE {NoResult}

\* The results the tools of one round return, one per call.
ResultSeqs(calls) ==
    {results \in [1 .. Len(calls) -> {YoutubeFound, YoutubeFailed, WeatherReport, NoResult, Raised}] :
        \A i \in 1 .. Len(calls) : results[i] \in ToolOutputs(calls[i].name)}

(***************************************************************************)
(* The graph of graph.py.                                                  *)
(***************************************************************************)
\* The texts the evaluation model can answer with: "CONTINUE", "COMPLETE",
\* " continue" and "COMPLETE: do not continue".
CONTINUE == <<"C", "O", "N", "T", "I", "N", "U", "E">>
EvalOutputs ==
    {CONTINUE,
     <<"C", "O", "M", "P", "L", "E", "T", "E">>,
     <<" ", "c", "o", "n", "t", "i", "n", "u", "e">>,
     <<"C", "O", "M", "P", "L", "E", "T", "E", ":", " ", "d", "o", " ", "n", "o", "t", " ", "c", "o", "n", "t", "i", "n", "u", "e">>}

\* "CONTINUE" in eval_result.content.upper()
EvalSaysContinue(text) == Contains(Upper(text), CONTINUE)

\* Mutant of route_from_chatbot: requested tools are left to the gate.
route_from_chatbot_to_gate(ms) == "post_processor"

\* route_from_chatbot: to the tools if the response requests any.
route_from_chatbot(ms) ==
    IF HasToolCalls(Last(ms)) THEN "tool_node" ELSE "post_processor"

route_from_post_processor(sc) ==
    IF sc = "True" THEN "chatbot" ELSE "formatter"

\* What a step leaves behind for an observer: the model it invoked, the
\* events it wrote, the input of the agent model, the evaluation's text.
StepTrace(model, events, input, text) ==
    /\ invoked' = model
    /\ step_log' = events
    /\ model_input' = input
    /\ eval_text' = text

NodeStart(node, iteration) == [type |-> "node_start", node |-> node, iteration |-> iteration]

\* The messages chatbot hands to the agent model: state["messages"].
ChatbotInput(ms) == ms

\* chatbot: invokes the agent model on the messages and appends its response.
Chatbot ==
    /\ pc = "chatbot"
    /\ \E response \in AgentOutputs(messages) :
          /\ messages' = add_messages(messages, <<response>>)
          /\ pc' = route_from_chatbot(messages')
          /\ all_tools' = (all_tools /\ HasToolCalls(response))
    /\ StepTrace("agent", <<NodeStart("chatbot", iteration_count)>>, ChatbotInput(messages), <<>>)
    /\ UNCHANGED <<iteration_count, should_continue, raw_final_response, rounds, supVars,
                   frameVars>>

\* "me", "near me", "nearby", "my location", "current location", "here"
NEAR_ME_KEYWORDS ==
    {<<"m", "e">>,
     <<"n", "e", "a", "r", " ", "m", "e">>,
     <<"n", "e", "a", "r", "b", "y">>,
     <<"m", "y", " ", "l", "o", "c", "a", "t", "i", "o", "n">>,
     <<"c", "u", "r", "r", "e", "n", "t", " ", "l", "o", "c", "a", "t", "i", "o", "n">>,
     <<"h", "e", "r", "e">>}
LocationAwareTools == {"get_nearby_subway_arrivals", "get_nearby_subway_stations", "get_weather"}

\* State.user_location: None, or the coordinates of the caller.
NoLocation == [present |-> FALSE, lat |-> "None", lon |-> "None"]
Coordinates == [present |-> TRUE, lat |-> "40.7", lon |-> "-74.0"]

\* Mutant of InjectLocation: the coordinates are injected for every tool.
InjectLocationAnyTool(tool_name, args, location) ==
    IF Strip(Lower(args.location)) \in NEAR_ME_KEYWORDS /\ location.present
    THEN [args EXCEPT !.user_lat = location.lat, !.user_lon = location.lon]
    ELSE args

\* tool_node: the arguments a call is executed with.
InjectLocation(tool_name, args, location) ==
    IF /\ tool_name \in LocationAwareTools
       /\ Strip(Lower(args.location)) \in NEAR_ME_KEYWORDS
       /\ location.present
    THEN [args EXCEPT !.user_lat = location.lat, !.user_lon = location.lon]
    ELSE args

\* item.get(key, default)
Get(value, default) == IF value = Absent THEN default ELSE value

YoutubeEmbeds(videos) ==
    [i \in 1 .. Len(videos) |->
        [type |-> "youtube_embed", video_id |-> videos[i].id, title |-> videos[i].title,
         channel |-> Get(videos[i].channel, "")]]
SpotifyEmbeds(results) ==
    [i \in 1 .. Len(results) |->
        [type |-> "spotify_embed", content_type |-> results[i].type, id |-> results[i].id,
         name |-> results[i].name,
         artist |-> Get(results[i].artist, Get(results[i].owner, ""))]]

\* result_data.get("text", result_str)
SummaryOrRaw(result) == IF result.text # NoField THEN result.text ELSE RawText(result)

\* Mutant of post_process_tool_result: the embeds are written in reverse order.
post_process_tool_result_reversed(tool_name, result) ==
    LET Reverse(seq) == [i \in 1 .. Len(seq) |-> seq[Len(seq) + 1 - i]]
    IN IF tool_name = "search_youtube_song" /\ result.json
       THEN [events |-> Reverse(YoutubeEmbeds(result.videos)), text |-> SummaryOrRaw(result),
             raises |-> FALSE]
       ELSE IF tool_name = "search_spotify" /\ result.json
       THEN [events |-> Reverse(SpotifyEmbeds(result.results)), text |-> SummaryOrRaw(result),
             raises |-> FALSE]
       ELSE [events |-> <<>>, text |-> RawText(result), raises |-> FALSE]

\* The first item that lacks a key the loop subscripts (video["id"],
\* video["title"]; item["type"], item["id"], item["name"]), 0 if none does.
Subscripted(tool_name, item) ==
    IF tool_name = "search_youtube_song" THEN {item.id, item.title}
    ELSE {item.type, item.id, item.name}
FirstKeyError(tool_name, items) ==
    LET lacking == {i \in 1 .. Len(items) : Absent \in Subscripted(tool_name, items[i])}
    IN IF lacking = {} THEN 0 ELSE Smallest(lacking)

\* The events written for the items, and the summary returned or the raise:
\* only json.JSONDecodeError is caught, so result_data.get on a list or a
\* string (AttributeError) and a missing key of an item (KeyError) leave the
\* function, the latter after the embeds of the items before.
Embedded(tool_name, result, items, embeds) ==
    IF result.shape # "object"
    THEN [events |-> <<>>, text |-> NoField, raises |-> TRUE]
    ELSE IF FirstKeyError(tool_name, items) # 0
    THEN [events |-> SubSeq(embeds, 1, FirstKeyError(tool_name, items) - 1),
          text |-> NoField, raises |-> TRUE]
    ELSE [events |-> embeds, text |-> SummaryOrRaw(result), raises |-> FALSE]

\* _post_process_tool_result: the events it writes and the text it returns,
\* or that it raises.
post_process_tool_result(tool_name, result) ==
    IF tool_name = "search_youtube_song" /\ result.json
    THEN Embedded(tool_name, result, result.videos, YoutubeEmbeds(result.videos))
    ELSE IF tool_name = "search_spotify" /\ result.json
    THEN Embedded(tool_name, result, result.results, SpotifyEmbeds(result.results))
    ELSE [events |-> <<>>, text |-> RawText(result), raises |-> FALSE]

\* Mutant of Unregistered: a name that is not registered is not noticed.
UnregisteredUnnoticed(tool_name) == FALSE

\* tools_by_name[tool_name] raises KeyError.
Unregistered(tool_name) == tool_name \notin tools_by_name

\* The pass of the loop for `call` raises: the name is not registered, the
\* tool raised, or the post-processing of its result did.
CallFails(call, result) ==
    \/ Unregistered(call.name)
    \/ result = Raised
    \/ post_process_tool_result(call.name, result).raises

\* Mutant of CallLog: the tool_call event is written after the execution.
CallLogAnnouncedLate(call, result, location) ==
    LET args == InjectLocation(call.name, call.args, location)
        post == post_process_tool_result(call.name, result)
    IN IF Unregistered(call.name)
       THEN <<[type |-> "tool_call", tool |-> call.name, args |-> args]>>
       ELSE <<[type |-> "invoke", tool |-> call.name, args |-> args, returned |-> result],
              [type |-> "tool_call", tool |-> call.name, args |-> args]>>
            \o (IF result = Raised THEN <<>>
                ELSE post.events
                     \o <<[type |-> "tool_result", tool |-> call.name, result |-> post.text]>>)

\* One pass of the loop of tool_node: the tool_call event, the execution (an
\* "invoke" entry), the events of the post-processing, the tool_result event.
\* tools_by_name[tool_name] raises KeyError after the tool_call event, a tool
\* that raises does so in its execution.
CallLog(call, result, location) ==
    LET args == InjectLocation(call.name, call.args, location)
        post == post_process_tool_result(call.name, result)
    IN <<[type |-> "tool_call", tool |-> call.name, args |-> args]>>
       \o (IF Unregistered(call.name) THEN <<>>
           ELSE <<[type |-> "invoke", tool |-> call.name, args |-> args, returned |-> result]>>
                \o (IF result = Raised THEN <<>>
                    ELSE post.events
                         \o (IF post.raises THEN <<>>
                             ELSE <<[type |-> "tool_result", tool |-> call.name,
                                     result |-> post.text]>>)))

\* The log of the first n passes of the loop.
RECURSIVE RoundLog(_, _, _, _)
RoundLog(calls, results, location, n) ==
    IF n = 0 THEN <<>>
    ELSE RoundLog(calls, results, location, n - 1) \o CallLog(calls[n], results[n], location)

\* The first pass of the loop that raises, 0 if none does.
FirstFailure(calls, results) ==
    LET failures == {i \in 1 .. Len(calls) : CallFails(calls[i], results[i])}
    IN IF failures = {} THEN 0 ELSE Smallest(failures)

\* Mutant of ToolResults: every result carries the first call's identifier.
ToolResultsFirstId(calls, results) ==
    [i \in 1 .. Len(calls) |->
        ToolMessage(post_process_tool_result(calls[i].name, results[i]).text, calls[1].id)]

\* The ToolMessages of one round: one per tool call of the last message, in
\* order, each with the call's identifier.
ToolResults(calls, results) ==
    [i \in 1 .. Len(calls) |->
        ToolMessage(post_process_tool_result(calls[i].name, results[i]).text, calls[i].id)]

\* Mutant of RequestAfterRound: tool_args is the mapping of the request itself,
\* and the injection of the first n passes writes into it.
RequestAfterRoundAliased(message, location, n) ==
    [message EXCEPT !.tool_calls =
        [i \in 1 .. Len(message.tool_calls) |->
            IF i <= n
            THEN [message.tool_calls[i] EXCEPT
                     !.args = InjectLocation(message.tool_calls[i].name,
                                             message.tool_calls[i].args, location)]
            ELSE message.tool_calls[i]]]

\* The message that requested the round after the first n passes of the loop:
\* tool_args is tool_call["args"].copy(), so the request keeps its mappings.
RequestAfterRound(message, location, n) == message

\* The messages with the last one replaced.
WithLast(ms, message) == [ms EXCEPT ![Len(ms)] = message]

\* Mutant of FailedRoundMessages: the results gathered before the raise are
\* appended.
FailedRoundMessagesPartial(calls, results, failing) ==
    SubSeq(ToolResults(calls, results), 1, failing - 1)

\* The messages of a round whose pass `failing` raised: the node does not
\* return, and the list it was building is dropped.
FailedRoundMessages(calls, results, failing) == <<>>

\* Mutant of NextIterationCount: one increment per invocation of the round.
NextIterationCountPerCall(current_count, calls) == current_count + Len(calls)

\* current_count + 1
NextIterationCount(current_count, calls) == current_count + 1

\* tool_node, followed by the edge to `next`.  When a pass of the loop raises,
\* the node returns nothing and the run fails.
ToolNodeTo(next) ==
    /\ pc = "tool_node"
    /\ LET calls == Last(messages).tool_calls
       IN \E results \in ResultSeqs(calls) :
             LET failing == FirstFailure(calls, results)
             IN
             IF failing # 0
             THEN /\ pc' = "failed"
                  /\ StepTrace("none", RoundLog(calls, results, user_location, failing),
                               <<>>, <<>>)
                  /\ messages' = add_messages(
                                     WithLast(messages,
                                         RequestAfterRound(Last(messages), user_location,
                                                           failing)),
                                     FailedRoundMessages(calls, results, failing))
                  /\ UNCHANGED <<iteration_count, rounds>>
             ELSE /\ messages' = add_messages(
                                     WithLast(messages,
                                         RequestAfterRound(Last(messages), user_location,
                                                           Len(calls))),
                                     ToolResults(calls, results))
                  /\ iteration_count' = NextIterationCount(iteration_count, calls)
                  /\ rounds' = rounds + 1
                  /\ pc' = next
                  /\ StepTrace("none", RoundLog(calls, results, user_location, Len(calls)),
                               <<>>, <<>>)
    /\ UNCHANGED <<should_continue, raw_final_response, all_tools, supVars, frameVars>>

ToolNode == ToolNodeTo("post_processor")

\* Mutant of ReachedMaxIterations: the guard is late by one round.
ReachedMaxIterationsLate(count) == count > MAX_ITERATIONS

\* The iteration guard of post_processor.
ReachedMaxIterations(count) == count >= MAX_ITERATIONS

\* post_processor: the value it returns for should_continue, and whether it
\* invokes the evaluation model on the way.
PostProcessorEvaluates(ms, count) ==
    ~ReachedMaxIterations(count) /\ ~HasToolCalls(Last(ms))

PostProcessorDecision(ms, count, eval_result) ==
    IF ReachedMaxIterations(count) THEN FALSE
    ELSE IF HasToolCalls(Last(ms)) THEN TRUE
    ELSE EvalSaysContinue(eval_result)

PostProcessor ==
    /\ pc = "post_processor"
    /\ \E eval_result \in EvalOutputs :
          LET evaluates == PostProcessorEvaluates(messages, iteration_count)
              decision == PostProcessorDecision(messages, iteration_count, eval_result)
          IN /\ should_continue' = IF decision THEN "True" ELSE "False"
             /\ pc' = route_from_post_processor(should_continue')
             /\ StepTrace(IF evaluates THEN "eval" ELSE "none",
                          <<NodeStart("post_processor", iteration_count),
                            [type |-> "post_processor_decision", should_continue |-> decision,
                             iteration_count |-> iteration_count]>>,
                          <<>>,
                          IF evaluates THEN eval_result ELSE <<>>)
    /\ UNCHANGED <<messages, iteration_count, raw_final_response, rounds, all_tools, supVars,
                   frameVars>>

\* formatter: formats the content of the last message with the formatter
\* model, appends the formatted message; the edge leads to END.
Formatter ==
    /\ pc = "formatter"
    /\ raw_final_response' = Last(messages).content
    /\ messages' = add_messages(messages, <<AIMessage("formatted", <<>>)>>)
    /\ pc' = "END"
    /\ StepTrace("formatter",
                 <<NodeStart("formatter", iteration_count), [type |-> "formatter_complete"]>>,
                 <<>>, <<>>)
    /\ UNCHANGED <<iteration_count, should_continue, rounds, all_tools, supVars, frameVars>>

\* The conversation histories a caller supplies.
Histories == {<<HumanMessage>>, <<HumanMessage, AIMessage("answer", <<>>), HumanMessage>>}

\* Nothing has run.
InitGhosts ==
    /\ invoked = "none"
    /\ rounds = 0
    /\ all_tools = TRUE
    /\ model_calls = 0
    /\ answers = 0
    /\ retries = 0
    /\ verdicts = <<>>
    /\ step_log = <<>>
    /\ model_input = <<>>
    /\ eval_text = <<>>
    /\ stream = <<>>
    /\ done_events = 0

\* _post_process_tool_result is not called on its own.
NoCall == [name |-> "None", result |-> NoResult]
PostProcessIdle == pp_call = NoCall /\ pp_result = NoField

\* The body of a request: the fields "message", "messages" (entries with a
\* role) and "location" it carries.
Body(has_message, history, location) ==
    [has_message |-> has_message, messages |-> history, location |-> location]
NoRequest == [endpoint |-> "None", body |-> Body(FALSE, <<>>, NoLocation)]
NoResponse == [status |-> 0, body |-> ""]

\* No request is being served by main.py.
BoundaryIdle == request = NoRequest /\ http_response = NoResponse

\* _token_cache as spotify.py creates it; no conversation is in
\* _get_access_token.
Conversations == {1, 2}
EmptyCache == [access_token |-> "None", expires_at |-> 0]
Idle == [at |-> "idle", token |-> "None", expires_in |-> 0, entry |-> EmptyCache]
CacheIdle ==
    /\ token_cache = EmptyCache
    /\ callers = [c \in Conversations |-> Idle]
    /\ now = 0

InitWith(counts) ==
    /\ pc = "chatbot"
    /\ messages \in Histories
    /\ user_location \in {NoLocation, Coordinates}
    /\ PostProcessIdle
    /\ BoundaryIdle
    /\ CacheIdle
    /\ iteration_count \in counts
    /\ should_continue = "None"
    /\ raw_final_response = "None"
    /\ supervisor_turns = 0
    /\ supervisor_decision = "None"
    /\ InitGhosts

\* A request starts the graph with iteration_count = 0.
Init == InitWith({0})

Next == Chatbot \/ ToolNode \/ PostProcessor \/ Formatter

Spec == Init /\ [][Next]_vars

\* LangGraph runs the node it has scheduled: a run does not stop while a node
\* is due.
SpecFair == Spec /\ WF_vars(Next)

\* The graph invoked on a state whose iteration_count the caller chose, as the
\* unit tests of the routing functions do.
InitAny == InitWith(0 .. MAX_ITERATIONS + 1)

SpecAny == InitAny /\ [][Next]_vars

(***************************************************************************)
(* tool_node called on its own, on a state whose last message requests     *)
(* tools, as the unit tests call it.                                       *)
(***************************************************************************)
\* "near me", " Near Me ", "nearby", "here"
NearMe == <<"n", "e", "a", "r", " ", "m", "e">>
NearMeSpaced == <<" ", "N", "e", "a", "r", " ", "M", "e", " ">>
Nearby == <<"n", "e", "a", "r", "b", "y">>
Here == <<"h", "e", "r", "e">>

ToolRequests ==
    {[name |-> "get_weather", args |-> a] : a \in {NoArgs, Args(NYC), Args(NearMe), Args(NearMeSpaced)}}
        \cup {[name |-> "get_nearby_subway_stations", args |-> a] : a \in {Args(NYC), Args(Nearby)}}
        \cup {[name |-> "get_nearby_subway_arrivals", args |-> Args(Here)]}
        \cup {[name |-> "search_youtube_song", args |-> a] : a \in {NoArgs, Args(NearMe)}}
        \cup {[name |-> "not_a_tool", args |-> NoArgs]}

ToolInit ==
    /\ pc = "tool_node"
    /\ \E reqs \in RequestSeqs(ToolRequests) :
          messages = <<HumanMessage, AIMessage("", ToolCalls(<<HumanMessage>>, reqs))>>
    /\ user_location \in {NoLocation, Coordinates}
    /\ PostProcessIdle
    /\ BoundaryIdle
    /\ CacheIdle
    /\ iteration_count = 0
    /\ should_continue = "None"
    /\ raw_final_response = "None"
    /\ supervisor_turns = 0
    /\ supervisor_decision = "None"
    /\ InitGhosts

ToolSpec == ToolInit /\ [][ToolNode]_vars

(***************************************************************************)
(* _post_process_tool_result called on its own, on a tool name and a raw   *)
(* result, as the unit tests call it.                                      *)
(***************************************************************************)
MAX_TOOL_RESULT_LENGTH == 4000

MediaTools == {"search_youtube_song", "search_spotify"}
PostNames == MediaTools \cup {"get_weather", "exa_search", "not_a_tool"}

SpotifyFound ==
    JsonResult("spotify json", 250, <<>>, SpotifyResults, Text("Found 2 results", 15), NoField)
PostResults ==
    {WeatherReport,
     PlainResult("not json", 8),
     PlainResult("", 0),
     PlainResult("x * limit", MAX_TOOL_RESULT_LENGTH),
     PlainResult("x * (limit + 100)", MAX_TOOL_RESULT_LENGTH + 100),
     YoutubeFound,
     YoutubeFailed,
     SpotifyFound,
     JsonResult("youtube json, no videos", 50, <<>>, <<>>, Text("Found 0 videos", 14), NoField),
     JsonResult("youtube json, no text", 200, Videos, <<>>, NoField, NoField),
     JsonResult("youtube json, error and text", 80, <<>>, <<>>,
                Text("Found 0 videos", 14), Text("No results found", 16)),
     JsonResult("spotify json, error", 60, <<>>, <<>>, NoField, Text("Spotify API error", 17)),
     JsonResult("empty object", 2, <<>>, <<>>, NoField, NoField),
     JsonValue("json array", 6, "array"),
     JsonValue("json string", 9, "string"),
     JsonResult("youtube json, second video without id", 120,
                <<Videos[1], [Videos[2] EXCEPT !.id = Absent]>>, <<>>,
                Text("Found 2 videos", 14), NoField),
     JsonResult("spotify json, first item without name", 120, <<>>,
                <<[SpotifyResults[1] EXCEPT !.name = Absent], SpotifyResults[2]>>,
                Text("Found 2 results", 15), NoField)}

PostInit ==
    /\ pc = "post_process"
    /\ pp_call \in [name : PostNames, result : PostResults]
    /\ pp_result = NoField
    /\ BoundaryIdle
    /\ CacheIdle
    /\ messages = <<>>
    /\ user_location = NoLocation
    /\ iteration_count = 0
    /\ should_continue = "None"
    /\ raw_final_response = "None"
    /\ supervisor_turns = 0
    /\ supervisor_decision = "None"
    /\ InitGhosts

PostProcess ==
    /\ pc = "post_process"
    /\ LET post == post_process_tool_result(pp_call.name, pp_call.result)
       IN /\ pp_result' = post.text
          /\ pc' = IF post.raises THEN "failed" ELSE "post_processed"
          /\ StepTrace("none", post.events, <<>>, <<>>)
    /\ UNCHANGED <<messages, iteration_count, should_continue, raw_final_response, rounds,
                   all_tools, supVars, user_location, pp_call, streamVars, boundaryVars,
                   cacheVars>>

PostSpec == PostInit /\ [][PostProcess]_vars

(***************************************************************************)
(* _get_access_token of tools/spotify.py, called by two conversations at   *)
(* once: graph nodes of concurrent requests run on separate threads, so    *)
(* the statements of the two calls interleave.  Time is counted in units   *)
(* of 300 seconds.                                                         *)
(***************************************************************************)
ExpiryBuffer == 1
IssuedTokens == {"token A", "token B"}
ExpiresIn == {2, 3}

At(c, at) == callers[c].at = at
\* A call moves on; `entry` keeps what the cache held when the call began.
Move(c, at, token, expires_in) ==
    callers' = [callers EXCEPT ![c] =
                   [at |-> at, token |-> token, expires_in |-> expires_in,
                    entry |-> IF callers[c].at = "idle" THEN token_cache
                              ELSE callers[c].entry]]

\* Lines 29-37: without credentials the call returns None; a cached token
\* that is not within the buffer of its expiry is returned; otherwise a new
\* token is requested.
GetAccessToken(c) ==
    /\ At(c, "idle")
    /\ \E credentials \in BOOLEAN :
          IF ~credentials
          THEN Move(c, "returned", "None", 0)
          ELSE IF token_cache.access_token # "None"
                    /\ now < token_cache.expires_at - ExpiryBuffer
               THEN Move(c, "returned", token_cache.access_token, 0)
               ELSE Move(c, "post", "None", 0)
    /\ UNCHANGED <<token_cache, now, restVars>>

\* Lines 44-53: the token endpoint answers, or the request raises and the
\* call returns None; so it does when the answer has no "access_token"
\* (KeyError in line 55, before the assignment).  An answer may lack
\* "expires_in", which is expires_in = 0 here.
TokenResponse(c) ==
    /\ At(c, "post")
    /\ \/ Move(c, "returned", "None", 0)
       \/ \E token \in IssuedTokens, expires_in \in ExpiresIn \cup {0} :
             Move(c, "store_token", token, expires_in)
    /\ UNCHANGED <<token_cache, now, restVars>>

\* Line 55: _token_cache["access_token"] = data["access_token"]
StoreToken(c) ==
    /\ At(c, "store_token")
    /\ token_cache' = [token_cache EXCEPT !.access_token = callers[c].token]
    /\ Move(c, "store_expiry", callers[c].token, callers[c].expires_in)
    /\ UNCHANGED <<now, restVars>>

\* Line 56: _token_cache["expires_at"] = time.time() + data["expires_in"];
\* data["expires_in"] raises KeyError when the key is lacking, and the handler
\* of line 59 returns None.
StoreExpiry(c) ==
    /\ At(c, "store_expiry")
    /\ IF callers[c].expires_in = 0
       THEN /\ UNCHANGED token_cache
            /\ Move(c, "returned", "None", 0)
       ELSE /\ token_cache' = [token_cache EXCEPT
                                   !.expires_at = now + callers[c].expires_in]
            /\ Move(c, "read_back", callers[c].token, 0)
    /\ UNCHANGED <<now, restVars>>

\* Line 58: return _token_cache["access_token"]
ReadBack(c) ==
    /\ At(c, "read_back")
    /\ Move(c, "returned", token_cache.access_token, 0)
    /\ UNCHANGED <<token_cache, now, restVars>>

\* The conversation goes on, and may search again.
Returned(c) ==
    /\ At(c, "returned")
    /\ callers' = [callers EXCEPT ![c] = Idle]
    /\ UNCHANGED <<token_cache, now, restVars>>

\* time.time() advances.
Tick ==
    /\ now < MaxTime
    /\ now' = now + 1
    /\ UNCHANGED <<token_cache, callers, restVars>>

SpotifyInit ==
    /\ pc = "search_spotify"
    /\ CacheIdle
    /\ PostProcessIdle
    /\ BoundaryIdle
    /\ messages = <<>>
    /\ user_location = NoLocation
    /\ iteration_count = 0
    /\ should_continue = "None"
    /\ raw_final_response = "None"
    /\ supervisor_turns = 0
    /\ supervisor_decision = "None"
    /\ InitGhosts

SpotifyNext ==
    \/ \E c \in Conversations : GetAccessToken(c)
    \/ \E c \in Conversations : TokenResponse(c)
    \/ \E c \in Conversations : StoreToken(c)
    \/ \E c \in Conversations : StoreExpiry(c)
    \/ \E c \in Conversations : ReadBack(c)
    \/ \E c \in Conversations : Returned(c)
    \/ Tick

SpotifySpec == SpotifyInit /\ [][SpotifyNext]_vars

\* One conversation calls _get_access_token, again and again.
SoloNext ==
    \/ GetAccessToken(1)
    \/ TokenResponse(1)
    \/ StoreToken(1)
    \/ StoreExpiry(1)
    \/ ReadBack(1)
    \/ Returned(1)
    \/ Tick

SpotifySoloSpec == SpotifyInit /\ [][SoloNext]_vars

(***************************************************************************)
(* The graph of main.py (chatbot -> tool_node -> chatbot, chatbot -> END)  *)
(* behind POST /chat/stream: event_generator yields what graph.astream     *)
(* produces, then `done`.                                                  *)
(***************************************************************************)
main_tools_by_name == {"get_weather"}

\* What a model invocation or a tool execution does: it returns, or raises.
Outcomes == {"ok", "raise"}

\* The requests: a body posted to /chat or to /chat/stream.
Turn(role) == [role |-> role, content |-> "question"]
Bodies ==
    {Body(TRUE, <<>>, NoLocation),
     Body(TRUE, <<>>, Coordinates),
     Body(FALSE, <<Turn("user")>>, NoLocation),
     Body(FALSE, <<Turn("system"), Turn("user")>>, NoLocation),
     Body(TRUE, <<Turn("user"), Turn("assistant"), Turn("user")>>, Coordinates),
     Body(TRUE, <<Turn("system"), Turn("user")>>, NoLocation)}
Endpoints == {"chat", "stream"}

\* ChatRequest of main.py: `message: str` is required, other fields of the body
\* are ignored.
Valid(body) == body.has_message

\* The generator's yields reach the caller in order; the model keeps the last
\* MaxStream of them.  On /chat nothing is streamed.
Yield(events) ==
    LET all == stream \o events
    IN IF request.endpoint # "stream" THEN stream
       ELSE IF Len(all) <= MaxStream THEN all
       ELSE SubSeq(all, Len(all) - MaxStream + 1, Len(all))

\* chat and chat_stream: a body that fails validation is answered with 422
\* before the handler runs; otherwise the graph is started on
\* {"messages": [{"role": "user", "content": request.message}]}.
Boundary(endpoint) ==
    /\ pc = "request"
    /\ request.endpoint = endpoint
    /\ IF Valid(request.body)
       THEN /\ pc' = "chatbot"
            /\ messages' = <<HumanMessage>>
            /\ UNCHANGED http_response
       ELSE /\ pc' = "rejected"
            /\ http_response' = [status |-> 422, body |-> ""]
            /\ UNCHANGED messages
    /\ StepTrace("boundary", <<>>, <<>>, <<>>)
    /\ UNCHANGED <<iteration_count, should_continue, raw_final_response, rounds, all_tools,
                   supVars, user_location, pp_call, pp_result, streamVars, request,
                   cacheVars>>

Chat == Boundary("chat")
ChatStream == Boundary("stream")

NodeComplete(node) == [type |-> "node_complete", node |-> node]
Token(content) == [type |-> "token", content |-> content]

\* The content of a response as characters, and the chunks the model streams
\* it in: the response is the sum of its chunks, and the chunks of a response
\* that requests tools have no content.
AnswerChars == <<"a", "n", "s", "w", "e", "r">>
CharsOf(content) == IF content = "answer" THEN AnswerChars ELSE <<>>
ChunksOf(content) ==
    IF content = "answer"
    THEN {<<AnswerChars>>,
          <<SubSeq(AnswerChars, 1, 3), SubSeq(AnswerChars, 4, 6)>>,
          <<<<>>, SubSeq(AnswerChars, 1, 3), <<>>, SubSeq(AnswerChars, 4, 6)>>}
    ELSE {<<<<>>>>}

\* Mutant of CustomEvents: only the latest event of the writer is passed on.
CustomEventsLatestOnly(events) == IF events = <<>> THEN <<>> ELSE <<Last(events)>>

\* event_generator, mode "custom": every chunk is yielded as it is.
CustomEvents(events) == events

\* Mutant of TokenEvents: only the first chunk is passed on.
TokenEventsFirstOnly(chunks) == <<Token(chunks[1])>>

\* event_generator, mode "messages": a token event per chunk with content.
TokenEvents(chunks) ==
    LET with_content == SelectSeq(chunks, LAMBDA c : c # <<>>)
    IN [i \in 1 .. Len(with_content) |-> Token(with_content[i])]

\* should_continue of main.py: "tool_node" or "__end__", where the graph ends.
main_should_continue(ms) == IF HasToolCalls(Last(ms)) THEN "tool_node" ELSE "graph_end"

\* chatbot of main.py under astream: the node_start event, the tokens of a
\* response with content, the node's update.  An exception of the model
\* leaves the graph, and the handler with it.
MainChatbot ==
    /\ pc = "chatbot"
    /\ \E outcome \in Outcomes :
          IF outcome = "raise"
          THEN /\ pc' = "failed"
               /\ stream' = Yield(CustomEvents(<<[type |-> "node_start", node |-> "chatbot"]>>))
               /\ UNCHANGED <<messages, all_tools>>
          ELSE \E response_message \in AgentOutputs(messages) :
                  \E chunks \in ChunksOf(response_message.content) :
                     /\ messages' = add_messages(messages, <<response_message>>)
                     /\ pc' = main_should_continue(messages')
                     /\ all_tools' = (all_tools /\ HasToolCalls(response_message))
                     /\ stream' = Yield(CustomEvents(<<[type |-> "node_start",
                                                         node |-> "chatbot"]>>)
                                        \o TokenEvents(chunks)
                                        \o <<NodeComplete("chatbot")>>)
    /\ StepTrace("agent", <<[type |-> "node_start", node |-> "chatbot"]>>, messages, <<>>)
    /\ UNCHANGED <<iteration_count, should_continue, raw_final_response, rounds, supVars,
                   user_location, pp_call, pp_result, done_events, request, http_response,
                   cacheVars>>

\* One pass of the loop of main.py's tool_node, which raises when the name is
\* not registered or the tool does.
MainCallFails(call, outcome) == call.name \notin main_tools_by_name \/ outcome = "raise"
MainCallEvents(call, outcome) ==
    <<[type |-> "tool_call", tool |-> call.name, args |-> call.args]>>
        \o (IF MainCallFails(call, outcome) THEN <<>>
            ELSE <<[type |-> "tool_result", tool |-> call.name, result |-> RawText(WeatherReport)]>>)
RECURSIVE MainRoundEvents(_, _, _)
MainRoundEvents(calls, outcomes, n) ==
    IF n = 0 THEN <<>>
    ELSE MainRoundEvents(calls, outcomes, n - 1) \o MainCallEvents(calls[n], outcomes[n])

MainToolNode ==
    /\ pc = "tool_node"
    /\ LET calls == Last(messages).tool_calls
       IN \E outcomes \in [1 .. Len(calls) -> Outcomes] :
             LET failures == {i \in 1 .. Len(calls) : MainCallFails(calls[i], outcomes[i])}
             IN IF failures # {}
                THEN /\ pc' = "failed"
                     /\ step_log' = MainRoundEvents(calls, outcomes, Smallest(failures))
                     /\ stream' = Yield(CustomEvents(step_log'))
                     /\ UNCHANGED <<messages, rounds>>
                ELSE /\ messages' = add_messages(messages,
                            [i \in 1 .. Len(calls) |->
                                ToolMessage(RawText(WeatherReport), calls[i].id)])
                     /\ rounds' = IF rounds < MaxRounds THEN rounds + 1 ELSE rounds
                     /\ pc' = "chatbot"
                     /\ step_log' = MainRoundEvents(calls, outcomes, Len(calls))
                     /\ stream' = Yield(CustomEvents(step_log') \o <<NodeComplete("tool_node")>>)
    /\ invoked' = "none"
    /\ model_input' = <<>>
    /\ eval_text' = <<>>
    /\ UNCHANGED <<iteration_count, should_continue, raw_final_response, all_tools, supVars,
                   user_location, pp_call, pp_result, done_events, request, http_response,
                   cacheVars>>

\* Mutant of Completion: nothing is yielded after the loop.
CompletionForgotten == <<>>

\* event_generator after the loop over astream: yield `done`.
Completion == <<[type |-> "done"]>>

StreamDone ==
    /\ pc = "graph_end"
    /\ request.endpoint = "stream"
    /\ stream' = Yield(Completion)
    /\ done_events' = done_events + Len(Completion)
    /\ pc' = "END"
    /\ StepTrace("none", <<>>, <<>>, <<>>)
    /\ UNCHANGED <<messages, iteration_count, should_continue, raw_final_response, rounds,
                   all_tools, supVars, user_location, pp_call, pp_result, request, http_response,
                   cacheVars>>

\* Mutant of ChatResponse: the content of the first message is returned.
ChatResponseOfFirst(ms) == [status |-> 200, body |-> ms[1].content]

\* chat: ChatResponse(response=result["messages"][-1].content)
ChatResponse(ms) == [status |-> 200, body |-> Last(ms).content]

ChatReturn ==
    /\ pc = "graph_end"
    /\ request.endpoint = "chat"
    /\ http_response' = ChatResponse(messages)
    /\ pc' = "END"
    /\ StepTrace("none", <<>>, <<>>, <<>>)
    /\ UNCHANGED <<messages, iteration_count, should_continue, raw_final_response, rounds,
                   all_tools, supVars, user_location, pp_call, pp_result, streamVars, request,
                   cacheVars>>

\* A request arrives.
MainInit ==
    /\ pc = "request"
    /\ request \in [endpoint : Endpoints, body : Bodies]
    /\ http_response = NoResponse
    /\ messages = <<>>
    /\ user_location = NoLocation
    /\ PostProcessIdle
    /\ CacheIdle
    /\ iteration_count = 0
    /\ should_continue = "None"
    /\ raw_final_response = "None"
    /\ supervisor_turns = 0
    /\ supervisor_decision = "None"
    /\ InitGhosts

MainNext == Chat \/ ChatStream \/ MainChatbot \/ MainToolNode \/ StreamDone \/ ChatReturn

MainSpec == MainInit /\ [][MainNext]_vars

\* LangGraph runs the node that is due, and the handler the step after it.
MainSpecFair == MainSpec /\ WF_vars(MainNext)

(***************************************************************************)
(* The supervisor graph (preprocessor -> chatbot -> tool_node | supervisor *)
(* | exit), modelled from spec.md 4.4, 4.5 and tests/test_graph.py.        *)
(***************************************************************************)
\* Mutant of ShouldContinue: an answer is reviewed also when no tool round has
\* completed.
ShouldContinueReviewsDirectAnswers(ms, count, turns) ==
    IF count >= MAX_ITERATIONS THEN "exit"
    ELSE IF HasToolCalls(Last(ms)) THEN "tool_node"
    ELSE IF turns <= MAX_SUPERVISOR_TURNS THEN "supervisor"
    ELSE "exit"

\* should_continue: the routing out of chatbot.
ShouldContinue(ms, count, turns) ==
    IF count >= MAX_ITERATIONS THEN "exit"
    ELSE IF HasToolCalls(Last(ms)) THEN "tool_node"
    ELSE IF count > 0 /\ turns <= MAX_SUPERVISOR_TURNS THEN "supervisor"
    ELSE "exit"

\* Mutant of supervisor_should_continue: the exit is forced at the cap already.
supervisor_should_continue_at_cap(turns, decision) ==
    IF turns >= MAX_SUPERVISOR_TURNS THEN "exit"
    ELSE IF decision = "RETRY" THEN "chatbot"
    ELSE "exit"

\* supervisor_should_continue: the routing out of supervisor.
supervisor_should_continue(turns, decision) ==
    IF turns > MAX_SUPERVISOR_TURNS THEN "exit"
    ELSE IF decision = "RETRY" THEN "chatbot"
    ELSE "exit"

\* preprocessor: returns {}.
Preprocessor ==
    /\ pc = "preprocessor"
    /\ pc' = "chatbot"
    /\ StepTrace("none", <<NodeStart("preprocessor", iteration_count)>>, <<>>, <<>>)
    /\ UNCHANGED <<messages, iteration_count, should_continue, raw_final_response,
                   rounds, all_tools, supVars, frameVars>>

\* The system directive, and the messages chatbot hands to the agent model:
\* the directive is put first unless the first message is a system message.
SystemMessage == [type |-> "system", content |-> "SYSTEM_PROMPT", tool_calls |-> <<>>, tool_call_id |-> 0]
WithSystemPrompt(ms) ==
    IF Len(ms) > 0 /\ ms[1].type = "system" THEN ms ELSE <<SystemMessage>> \o ms

SupChatbot ==
    /\ pc = "chatbot"
    /\ \E response \in AgentOutputs(messages) :
          /\ messages' = add_messages(messages, <<response>>)
          /\ pc' = ShouldContinue(messages', iteration_count, supervisor_turns)
          /\ all_tools' = (all_tools /\ HasToolCalls(response))
          /\ answers' = IF HasToolCalls(response) THEN answers ELSE answers + 1
    /\ model_calls' = model_calls + 1
    /\ StepTrace("agent", <<NodeStart("chatbot", iteration_count)>>,
                 WithSystemPrompt(messages), <<>>)
    /\ UNCHANGED <<iteration_count, should_continue, raw_final_response, rounds,
                   supervisor_turns, supervisor_decision, retries, verdicts, frameVars>>

\* tool_node, followed by the edge back to chatbot.
SupToolNode == ToolNodeTo("chatbot")

\* Mutant of NextSupervisorTurns: the evaluation is not counted.
NextSupervisorTurnsUncounted(turns) == turns

\* supervisor: supervisor_turns + 1
NextSupervisorTurns(turns) == turns + 1

\* The verdicts the supervisor records.
Verdicts == {"PASS", "RETRY"}

\* supervisor: invokes the model without tools, records the verdict and
\* increments supervisor_turns.
Supervisor ==
    /\ pc = "supervisor"
    /\ \E verdict \in Verdicts :
          /\ supervisor_decision' = verdict
          /\ verdicts' = Append(verdicts, verdict)
    /\ supervisor_turns' = NextSupervisorTurns(supervisor_turns)
    /\ pc' = supervisor_should_continue(supervisor_turns', supervisor_decision')
    /\ retries' = IF pc' = "chatbot" THEN retries + 1 ELSE retries
    /\ StepTrace("supervisor",
                 <<NodeStart("supervisor", iteration_count),
                   [type |-> "supervisor_evaluation", decision |-> supervisor_decision']>>,
                 <<>>, <<>>)
    /\ UNCHANGED <<messages, iteration_count, should_continue, raw_final_response,
                   rounds, all_tools, model_calls, answers, frameVars>>

\* Mutant of exit_node_messages: the node returns a closing message.
exit_node_messages_closing == <<AIMessage("goodbye", <<>>)>>

\* exit_node returns {}: no messages for the reducer.
exit_node_messages == <<>>

\* exit_node: returns {}; the edge leads to END.
ExitNode ==
    /\ pc = "exit"
    /\ pc' = "END"
    /\ messages' = add_messages(messages, exit_node_messages)
    /\ StepTrace("none", <<NodeStart("exit", iteration_count)>>, <<>>, <<>>)
    /\ UNCHANGED <<iteration_count, should_continue, raw_final_response,
                   rounds, all_tools, supVars, frameVars>>

SupInit ==
    /\ pc = "preprocessor"
    /\ messages \in Histories
    /\ user_location \in {NoLocation, Coordinates}
    /\ PostProcessIdle
    /\ BoundaryIdle
    /\ CacheIdle
    /\ iteration_count = 0
    /\ should_continue = "None"
    /\ raw_final_response = "None"
    /\ supervisor_turns = 0
    /\ supervisor_decision = "None"
    /\ InitGhosts

SupNext == Preprocessor \/ SupChatbot \/ SupToolNode \/ Supervisor \/ ExitNode

SupSpec == SupInit /\ [][SupNext]_vars

SupSpecFair == SupSpec /\ WF_vars(SupNext)

(***************************************************************************)
(* supervisor_should_continue on its own, applied to the states            *)
(* TestSupervisorShouldContinue builds with make_state and to the others   *)
(* of the same shape.                                                      *)
(***************************************************************************)
Decisions == {"None", "PASS", "RETRY"}

RouteInit ==
    /\ pc = "supervisor_should_continue"
    /\ supervisor_turns \in 0 .. MaxTurns
    /\ supervisor_decision \in Decisions
    /\ iteration_count \in 0 .. MAX_ITERATIONS
    /\ messages \in Histories
    /\ user_location = NoLocation
    /\ PostProcessIdle
    /\ BoundaryIdle
    /\ CacheIdle
    /\ should_continue = "None"
    /\ raw_final_response = "None"
    /\ InitGhosts

Route ==
    /\ pc = "supervisor_should_continue"
    /\ pc' = supervisor_should_continue(supervisor_turns, supervisor_decision)
    /\ UNCHANGED <<messages, iteration_count, should_continue, raw_final_response,
                   invoked, rounds, all_tools, supVars, step_log, model_input, eval_text,
                   frameVars>>

RouteSpec == RouteInit /\ [][Route]_vars

(***************************************************************************)
(* Claims.                                                                 *)
(***************************************************************************)
Halted == pc \in {"END", "failed"}

\* C1: in the graph of graph.py started with iteration_count = 0, tool_node is
\* never due while iteration_count is at or above MAX_ITERATIONS, and
\* iteration_count never exceeds MAX_ITERATIONS.
C1_ToolStageBelowCeiling ==
    /\ pc = "tool_node" => iteration_count < MAX_ITERATIONS
    /\ iteration_count <= MAX_ITERATIONS

\* C1 witness: the agent model requested tools on every pass, the ceiling is
\* reached and the gate has turned the run to the formatter.
C1_CeilingReached ==
    /\ iteration_count = MAX_ITERATIONS
    /\ all_tools
    /\ pc = "formatter"

\* C2: every execution reaches its end (the graph finishes, or a raise ends the
\* run) after finitely many steps.
C2_Terminates == <>Halted

\* C3: iteration_count equals the number of completed tool rounds, and a step
\* changes it only by adding one, in tool_node.
C3_OneIncrementPerRound ==
    /\ [](iteration_count = rounds)
    /\ [][\/ iteration_count' = iteration_count
          \/ pc = "tool_node" /\ pc' # "failed" /\ iteration_count' = iteration_count + 1]_vars

\* C3 witness: two rounds are complete, the second with two invocations.
C3_TwoRoundsDone ==
    /\ iteration_count = 2
    /\ pc = "post_processor"
    /\ Len(messages) >= 3
    /\ messages[Len(messages)].type = "tool"
    /\ messages[Len(messages) - 1].type = "tool"

\* C4: when chatbot's output carries tool calls, the next node is tool_node if
\* iteration_count is below MAX_ITERATIONS and a terminating node otherwise.
C4_RoutingRespectsCeiling ==
    [][(pc = "chatbot" /\ pc' # "chatbot" /\ HasToolCalls(Last(messages')))
          => IF iteration_count' < MAX_ITERATIONS
             THEN pc' = "tool_node"
             ELSE pc' \in {"formatter", "exit", "END"}]_vars

\* C5: a finished execution in which every output of the agent model requested
\* a tool has performed exactly MAX_ITERATIONS tool rounds.
C5_ExactlyCeilingRounds ==
    (pc = "END" /\ all_tools) => rounds = MAX_ITERATIONS

\* C6: once a round is complete, the messages after the model output that
\* requested it are its tool results: one per tool call, in the order
\* requested, each with the call's identifier.
AnsweredInOrder(ms) ==
    \E p \in 1 .. Len(ms) :
        /\ HasToolCalls(ms[p])
        /\ Len(ms) - p = Len(ms[p].tool_calls)
        /\ \A i \in 1 .. Len(ms[p].tool_calls) :
              /\ ms[p + i].type = "tool"
              /\ ms[p + i].tool_call_id = ms[p].tool_calls[i].id

C6_OneResultPerRequest ==
    (pc \in {"post_processor", "chatbot", "formatter"} /\ Last(messages).type = "tool")
        => AnsweredInOrder(messages)

\* C6 witness: a round of two invocations is complete and chatbot is due again.
C6_ModelDueAfterTwoResults ==
    /\ pc = "chatbot"
    /\ Len(messages) >= 3
    /\ messages[Len(messages)].type = "tool"
    /\ messages[Len(messages) - 1].type = "tool"
    /\ HasToolCalls(messages[Len(messages) - 2])

\* C7: the formatter is never due right after a tool round: the agent model
\* has run on the tool results first.
C7_ModelRunsAfterEveryRound ==
    pc = "formatter" => Last(messages).type # "tool"

\* C8: the evaluation model is invoked only after at least one tool round.
C8_DirectAnswerNotReviewed ==
    invoked = "eval" => iteration_count > 0

RetryThenPass == verdicts = <<"RETRY", "PASS">>

StartsWith(text, token) ==
    Len(token) <= Len(text) /\ SubSeq(text, 1, Len(token)) = token

\* C11: when the evaluation model has been asked, the decision is to continue
\* exactly when its text, trimmed and case-folded, begins with the token
\* CONTINUE; a text that holds the token later on, or an empty one, means pass.
C11_VerdictByPrefix ==
    invoked = "eval" =>
        ((should_continue = "True") <=> StartsWith(Upper(Strip(eval_text)), CONTINUE))

\* C12: the messages handed to the agent model hold the system directive
\* exactly once, as their first entry.
C12_SystemDirectiveFirstOnce ==
    invoked = "agent" =>
        /\ Len(model_input) > 0
        /\ model_input[1] = SystemMessage
        /\ Cardinality({i \in 1 .. Len(model_input) : model_input[i].type = "system"}) = 1

PostProcessed == pc = "post_processed"
Raw == pp_call.result
Unchanged == [id |-> Raw.id, len |-> Raw.len, marker |-> FALSE]

\* C13: the text given to the model is the tool's text unchanged when it is not
\* longer than MAX_TOOL_RESULT_LENGTH, and its first MAX_TOOL_RESULT_LENGTH
\* characters followed by the truncation marker otherwise.
C13_LongTextTruncated ==
    (PostProcessed /\ pp_call.name \notin MediaTools) =>
        IF Raw.len <= MAX_TOOL_RESULT_LENGTH
        THEN pp_result = Unchanged
        ELSE pp_result = [id |-> Raw.id, len |-> MAX_TOOL_RESULT_LENGTH, marker |-> TRUE]

WellFormedPayload ==
    /\ pp_call.name \in MediaTools
    /\ Raw.json
    /\ Raw.text # NoField
    /\ Raw.error = NoField
Items == IF pp_call.name = "search_youtube_song" THEN Raw.videos ELSE Raw.results
EmbedOf(item) ==
    IF pp_call.name = "search_youtube_song"
    THEN [type |-> "youtube_embed", id |-> item.id]
    ELSE [type |-> "spotify_embed", id |-> item.id]
IdOf(event) ==
    IF event.type = "youtube_embed" THEN [type |-> event.type, id |-> event.video_id]
    ELSE [type |-> event.type, id |-> event.id]

\* C14: for a well-formed payload of a media tool, one embed event is written
\* per item of the payload's list, in the order of the list, and the text for
\* the model is the payload's summary, not the raw JSON text.
C14_OneEmbedPerItem ==
    (PostProcessed /\ WellFormedPayload) =>
        /\ Len(step_log) = Len(Items)
        /\ \A i \in 1 .. Len(Items) : IdOf(step_log[i]) = EmbedOf(Items[i])
        /\ pp_result = Raw.text
        /\ pp_result # Unchanged

\* C14 witness: two embeds have been written for a search_spotify payload of
\* two items.
C14_TwoEmbedsWritten ==
    /\ PostProcessed
    /\ WellFormedPayload
    /\ Len(Items) = 2
    /\ Len(step_log) = 2
    /\ pp_call.name = "search_spotify"

\* C15: when the payload of a media tool has an error field, the text for the
\* model is the value of that field, with or without a summary field.
C15_ErrorTextWins ==
    (PostProcessed /\ pp_call.name \in MediaTools /\ Raw.json /\ Raw.error # NoField) =>
        pp_result = Raw.error

\* C16: a raw result of a media tool that is not JSON is returned unchanged,
\* and no embed event is written.
C16_InvalidJsonFallsThrough ==
    (PostProcessed /\ pp_call.name \in MediaTools /\ ~Raw.json) =>
        /\ pp_result = Unchanged
        /\ step_log = <<>>

\* C16 witness: "not json" has been post-processed for search_youtube_song.
C16_NotJsonProcessed ==
    /\ PostProcessed
    /\ pp_call.name = "search_youtube_song"
    /\ Raw = PlainResult("not json", 8)
    /\ pp_result.len = 8

\* The tool node has run; the calls of the round; the executions, in order.
ToolStepDone == pc \in {"post_processor", "failed"} /\ step_log # <<>>
RoundCalls ==
    LET requesting == {i \in 1 .. Len(messages) : HasToolCalls(messages[i])}
    IN messages[CHOOSE i \in requesting : \A j \in requesting : j <= i].tool_calls
Executed == SelectSeq(step_log, LAMBDA e : e.type = "invoke")
WantsCoordinates(call) ==
    /\ call.name \in {"get_weather", "get_nearby_subway_arrivals", "get_nearby_subway_stations"}
    /\ Strip(Lower(call.args.location)) \in NEAR_ME_KEYWORDS
    /\ user_location.present

\* C17: a call is executed with user_lat and user_lon added exactly when its
\* tool is location-aware, its location argument lower-cased and trimmed is a
\* sentinel and user_location is present; otherwise with the requested
\* arguments.
C17_CoordinatesInjectedIff ==
    ToolStepDone =>
        \A i \in 1 .. Len(Executed) :
            /\ Executed[i].tool = RoundCalls[i].name
            /\ Executed[i].args =
                  IF WantsCoordinates(RoundCalls[i])
                  THEN [RoundCalls[i].args EXCEPT !.user_lat = user_location.lat,
                                                  !.user_lon = user_location.lon]
                  ELSE RoundCalls[i].args

\* C17 witness: in one round get_weather(" Near Me ") has run with the
\* coordinates and search_youtube_song("near me") without.
C17_InjectedAndNot ==
    /\ ToolStepDone
    /\ Len(Executed) = 2
    /\ Executed[1].tool = "get_weather"
    /\ RoundCalls[1].args.location = NearMeSpaced
    /\ Executed[1].args.user_lat = "40.7"
    /\ Executed[2].tool = "search_youtube_song"
    /\ RoundCalls[2].args.location = NearMe
    /\ Executed[2].args.user_lat = "None"

EmbedEvents == {"youtube_embed", "spotify_embed"}

\* A log is bracketed when it is a sequence of groups, each a tool_call
\* event, the execution of that tool, the embed events of what the execution
\* returned, and the tool_result event of that tool; the last group may end
\* after its tool_call event, when the tool is not registered, or after its
\* execution, when the tool raised.
RECURSIVE Bracketed(_)
Bracketed(log) ==
    IF log = <<>> THEN TRUE
    ELSE /\ log[1].type = "tool_call"
         /\ \/ Len(log) = 1 /\ log[1].tool \notin tools_by_name
            \/ /\ Len(log) = 2
               /\ log[2].type = "invoke"
               /\ log[2].tool = log[1].tool
               /\ log[2].returned = Raised
            \/ /\ Len(log) >= 3
               /\ log[2].type = "invoke"
               /\ log[2].tool = log[1].tool
               /\ \E k \in 3 .. Len(log) :
                     /\ log[k].type = "tool_result"
                     /\ log[k].tool = log[1].tool
                     /\ \A j \in 3 .. k - 1 : log[j].type \in EmbedEvents
                     /\ k - 3 = IF log[1].tool = "search_youtube_song" /\ log[2].returned.json
                                THEN Len(log[2].returned.videos) ELSE 0
                     /\ Bracketed(SubSeq(log, k + 1, Len(log)))

Announced == SelectSeq(step_log, LAMBDA e : e.type = "tool_call")

\* C18: in a round, each call's tool_call event comes before its execution
\* and its tool_result event after, and no event of another call lies between
\* the two events; the calls are announced in the order of the request.
C18_EventsBracketExecution ==
    ToolStepDone =>
        /\ Bracketed(step_log)
        /\ Len(Announced) <= Len(RoundCalls)
        /\ \A i \in 1 .. Len(Announced) : Announced[i].tool = RoundCalls[i].name
        /\ (pc # "failed" => Len(Announced) = Len(RoundCalls))

\* C18 witness: a round of get_weather and search_youtube_song has written
\* eight entries, the two embeds of the second call among them.
C18_TwoBracketsWritten ==
    /\ ToolStepDone
    /\ pc = "post_processor"
    /\ Len(step_log) = 8
    /\ step_log[1].tool = "get_weather"
    /\ step_log[3].type = "tool_result"
    /\ step_log[6].type = "youtube_embed"

\* C19: a stream that completes without a failure holds exactly one `done`
\* event, and it is the last event of the stream.
C19_DoneOnceAndLast ==
    /\ done_events <= 1
    /\ \A i \in 1 .. Len(stream) - 1 : stream[i].type # "done"
    /\ (pc = "END" /\ request.endpoint = "stream") =>
           (done_events = 1 /\ Last(stream).type = "done")
    /\ done_events = 1 => pc = "END"

\* C19 witness: a stream with a tool round and the tokens of the answer has
\* completed.
C19_StreamCompleted ==
    /\ pc = "END"
    /\ request.endpoint = "stream"
    /\ done_events = 1
    /\ rounds = 1
    /\ \E i \in 1 .. Len(stream) : stream[i].type = "token"
    /\ \E i \in 1 .. Len(stream) : stream[i].type = "tool_result"

\* C20: when a failure has left the graph during a streaming request, the
\* stream ends with a terminal completion event.
C20_FailureStillSignalled ==
    (pc = "failed" /\ request.endpoint = "stream") =>
        (stream # <<>> /\ Last(stream).type \in {"done", "error"})

UnknownRequested ==
    /\ pc = "tool_node"
    /\ \E i \in 1 .. Len(Last(messages).tool_calls) :
          Last(messages).tool_calls[i].name \notin tools_by_name

\* C22: a round that requests a name absent from the registry fails: the
\* failure propagates, no tool-result message is appended, iteration_count is
\* not incremented and no result is reported for the absent name.
C22_UnknownToolPropagates ==
    [][UnknownRequested =>
          /\ pc' = "failed"
          /\ messages' = messages
          /\ iteration_count' = iteration_count
          /\ \A i \in 1 .. Len(step_log') :
                step_log'[i].type = "tool_result" => step_log'[i].tool \in tools_by_name]_vars

\* C22 witness: a round has failed at its second call, not_a_tool, after the
\* first call, get_weather, was executed and reported.
C22_FailedAtUnknownTool ==
    /\ pc = "failed"
    /\ Len(step_log) = 4
    /\ step_log[3].type = "tool_result"
    /\ step_log[4].type = "tool_call"
    /\ step_log[4].tool = "not_a_tool"
    /\ Last(messages).type = "ai"
    /\ iteration_count = 0

\* C23: a round whose tools are all registered does not fail: a failure of a
\* tool comes back as text and is delivered as a tool-result message.
C23_ToolFailuresAbsorbed ==
    (ToolStepDone /\ \A i \in 1 .. Len(RoundCalls) : RoundCalls[i].name \in tools_by_name) =>
        /\ pc # "failed"
        /\ Last(messages).type = "tool"

\* The characters of the token events of a stream, in order.
RECURSIVE TokenText(_)
TokenText(events) ==
    IF events = <<>> THEN <<>>
    ELSE (IF Head(events).type = "token" THEN Head(events).content ELSE <<>>)
             \o TokenText(Tail(events))

DirectAnswerStreamed == pc = "END" /\ request.endpoint = "stream" /\ rounds = 0

\* C21: the stream of a request the model answers directly is the start
\* event of the model stage, token events, the completion event of the model
\* stage and `done`, and nothing else; the token contents joined in order are
\* the final answer.
C21_DirectAnswerStream ==
    DirectAnswerStreamed =>
        LET n == Len(stream)
        IN /\ n >= 4
           /\ stream[1] = [type |-> "node_start", node |-> "chatbot"]
           /\ \A i \in 2 .. n - 2 : stream[i].type = "token"
           /\ stream[n - 1] = NodeComplete("chatbot")
           /\ stream[n] = [type |-> "done"]
           /\ TokenText(stream) = CharsOf(Last(messages).content)
           /\ Last(messages).type = "ai"

\* C21 witness: a direct answer has been streamed in two tokens.
C21_AnswerInTwoTokens ==
    /\ DirectAnswerStreamed
    /\ Len(stream) = 5
    /\ stream[2].type = "token"
    /\ stream[3].type = "token"
    /\ stream[2].content \o stream[3].content = AnswerChars

\* The history a request supplies, as the messages the state would hold.
RoleType(role) ==
    IF role = "user" THEN "human" ELSE IF role = "assistant" THEN "ai" ELSE role
Conforming(body) ==
    /\ body.messages # <<>>
    /\ \A i \in 1 .. Len(body.messages) : body.messages[i].role \in {"user", "assistant"}

\* C24: a request that supplies a history of user and assistant messages
\* starts the state machine, and the state it starts from holds that whole
\* history, the supplied location (or none) and an iteration count of zero.
C24_StateFromRequest ==
    (pc # "request" /\ Conforming(request.body)) =>
        /\ pc # "rejected"
        /\ invoked = "boundary" =>
              /\ Len(messages) = Len(request.body.messages)
              /\ \A i \in 1 .. Len(messages) :
                    messages[i].type = RoleType(request.body.messages[i].role)
              /\ user_location = request.body.location
              /\ iteration_count = 0

\* C25: a request holding a message whose role is neither user nor assistant
\* is answered with 422, and the state machine is never started on it.
C25_ForeignRoleRejected ==
    (pc # "request" /\ \E i \in 1 .. Len(request.body.messages) :
                          request.body.messages[i].role \notin {"user", "assistant"}) =>
        /\ pc = "rejected"
        /\ http_response.status = 422
        /\ messages = <<>>

\* C26: the response of /chat is the content of the last message of the
\* final state, and the last message of a terminated execution is an
\* assistant message.
C26_ResponseIsLastAssistant ==
    /\ pc \in {"graph_end", "END"} => Last(messages).type = "ai"
    /\ (pc = "END" /\ request.endpoint = "chat") =>
           /\ http_response.status = 200
           /\ http_response.body = messages[Len(messages)].content

\* C26 witness: /chat has answered after a tool round.
C26_ChatAnswered ==
    /\ pc = "END"
    /\ request.endpoint = "chat"
    /\ rounds = 1
    /\ Len(messages) = 4
    /\ messages[3].type = "tool"
    /\ http_response.body = "answer"

\* C27: the data reachable from more than one conversation is never written
\* after its initial load: the token cache of spotify.py stays as the module
\* created it.
C27_SharedDataAsLoaded == token_cache = EmptyCache

Routed == pc # "supervisor_should_continue"

AtCeilingGate == pc = "post_processor" /\ iteration_count >= MAX_ITERATIONS

\* C29: at the ceiling the post-processing gate decides to stop and does not
\* invoke the evaluation model, whatever the last message is and whatever
\* should_continue held before.
C29_CeilingStopsWithoutEvaluator ==
    [][AtCeilingGate =>
          /\ should_continue' = "False"
          /\ invoked' # "eval"
          /\ eval_text' = <<>>
          /\ pc' = "formatter"
          /\ messages' = messages]_vars

\* C29 witness: after the fifth round, with should_continue set to True by
\* the gate before, the gate has stopped on a tool message without the
\* evaluation model.
C29_StoppedAtCeiling ==
    /\ pc = "formatter"
    /\ iteration_count = MAX_ITERATIONS
    /\ rounds >= 2
    /\ should_continue = "False"
    /\ invoked = "none"
    /\ Last(messages).type = "tool"

\* The last n entries of a sequence.
Suffix(s, n) == SubSeq(s, Len(s) - n + 1, Len(s))

\* C30: every step leaves in messages what was there, in the same order and
\* unchanged, followed by zero or more new entries (of the entries before,
\* the model keeps those that fit its window).
C30_MessagesAppendOnly ==
    [][\E n \in 0 .. Len(messages') :
          LET kept == Len(messages') - n
          IN /\ kept <= Len(messages)
             /\ SubSeq(messages', 1, kept) = Suffix(messages, kept)
             /\ (kept < Len(messages) => Len(messages') = MaxMsgs)]_vars

\* C30 witness: the model stage, the tool stage and the formatter have each
\* appended to the question.
C30_ThreeStagesAppended ==
    /\ pc = "END"
    /\ Len(messages) = 4
    /\ messages[1] = HumanMessage
    /\ HasToolCalls(messages[2])
    /\ messages[3].type = "tool"
    /\ messages[4].content = "formatted"

Announcements(log) == SelectSeq(log, LAMBDA e : e.type = "tool_call")
Executions(log) == SelectSeq(log, LAMBDA e : e.type = "invoke")

\* C31: a round leaves the message that requested it as it was, argument
\* mappings included, with or without injection; the tool_call events and the
\* executions carry the final mappings, which hold the coordinates when they
\* were injected.
C31_RequestNotMutated ==
    [][pc = "tool_node" =>
          LET request_message == Last(messages)
              calls == request_message.tool_calls
              announced == Announcements(step_log')
              executed == Executions(step_log')
          IN /\ \E i \in 1 .. Len(messages') : messages'[i] = request_message
             /\ \A i \in 1 .. Len(announced) :
                   announced[i].args =
                      IF WantsCoordinates(calls[i])
                      THEN [calls[i].args EXCEPT !.user_lat = user_location.lat,
                                                 !.user_lon = user_location.lon]
                      ELSE calls[i].args
             /\ \A i \in 1 .. Len(executed) : executed[i].args = announced[i].args]_vars

\* C31 witness: get_weather("near me") was announced and executed with the
\* coordinates, and the request in messages still has none.
C31_InjectedRequestIntact ==
    /\ ToolStepDone
    /\ pc = "post_processor"
    /\ messages[2].tool_calls[1].name = "get_weather"
    /\ messages[2].tool_calls[1].args = Args(NearMe)
    /\ step_log[1].type = "tool_call"
    /\ step_log[1].args.user_lat = "40.7"
    /\ step_log[2].type = "invoke"
    /\ step_log[2].args.user_lon = "-74.0"

\* C32: for every raw result of a media tool, the post-processing returns a
\* text and does not raise.
C32_PostProcessingNeverRaises ==
    (pc # "post_process" /\ pp_call.name \in MediaTools) =>
        /\ pc = "post_processed"
        /\ pp_result # NoField

IsCustom(event) == event.type \notin {"token", "node_complete", "done"}

\* C34: what a step of a streaming request adds to the stream holds the
\* events the step's node wrote, each unchanged and once, in the order they
\* were written.
C34_CustomEventsRelayedInOrder ==
    [][request.endpoint = "stream" =>
          \E n \in 0 .. Len(stream') :
             LET added == Suffix(stream', n)
                 all == stream \o added
             IN /\ stream' = IF Len(all) <= MaxStream THEN all ELSE Suffix(all, MaxStream)
                /\ SelectSeq(added, IsCustom) = step_log']_vars

\* C34 witness: the caller has received the two events of a tool round after
\* the events of the model stage, in the order the tool stage wrote them.
C34_ToolRoundRelayed ==
    /\ request.endpoint = "stream"
    /\ pc = "chatbot"
    /\ Len(stream) = 5
    /\ stream[1].type = "node_start"
    /\ stream[3].type = "tool_call"
    /\ stream[4].type = "tool_result"
    /\ stream[5] = NodeComplete("tool_node")
    /\ step_log = <<stream[3], stream[4]>>

\* C35: every request served by the graph of main.py comes to an end,
\* whatever the model answers: it is rejected, it fails, or it completes.
C35_MainGraphTerminates == <>(pc \in {"rejected", "failed", "END"})

Reports(log) == SelectSeq(log, LAMBDA e : e.type = "tool_result")

\* C36: a round in which an invocation raises leaves messages and
\* iteration_count as they were, while the log holds the tool_call and
\* tool_result events of the invocations before the failing one and the
\* tool_call event of the failing one.
C36_FailedRoundContributesNothing ==
    [][(pc = "tool_node" /\ pc' = "failed") =>
          LET calls == Last(messages).tool_calls
              announced == Announcements(step_log')
              reported == Reports(step_log')
          IN /\ messages' = messages
             /\ iteration_count' = iteration_count
             /\ Len(announced) = Len(reported) + 1
             /\ Len(announced) <= Len(calls)
             /\ \A i \in 1 .. Len(announced) : announced[i].tool = calls[i].name
             /\ \A i \in 1 .. Len(reported) : reported[i].tool = calls[i].name]_vars

\* C36 witness: search_youtube_song has run and reported, then get_weather
\* raised; the request is still the last message.
C36_RaisedAfterOneResult ==
    /\ pc = "failed"
    /\ Len(Reports(step_log)) = 1
    /\ Reports(step_log)[1].tool = "search_youtube_song"
    /\ Last(step_log).type = "invoke"
    /\ Last(step_log).tool = "get_weather"
    /\ Last(step_log).returned = Raised
    /\ HasToolCalls(Last(messages))
    /\ iteration_count = 0

\* C37: the message the formatter was given, the one before the formatted
\* message, is an output of the agent model without tool calls.
C37_FormatterGivenAnAnswer ==
    pc = "END" =>
        LET raw == messages[Len(messages) - 1]
        IN /\ raw.type = "ai"
           /\ raw.tool_calls = <<>>

\* C38: post_processor is never due on a last message with tool calls, and
\* whenever it sets should_continue to True it has invoked the evaluation
\* model: its branch for pending tool calls is never taken.
C38_PendingCallsBranchDead ==
    [][pc = "post_processor" =>
          /\ ~HasToolCalls(Last(messages))
          /\ should_continue' = "True" => invoked' = "eval"]_vars

\* C38 witness: after a tool round the gate has decided to continue, on the
\* word of the evaluation model.
C38_ContinuedByEvaluator ==
    /\ pc = "chatbot"
    /\ rounds >= 1
    /\ should_continue = "True"
    /\ invoked = "eval"
    /\ Last(messages).type = "tool"
    /\ step_log[2].type = "post_processor_decision"

\* C39: a call of _get_access_token that returns None leaves both fields of
\* the token cache as they were when the call began, and a call returns the
\* cached token without a token request only when the time is more than the
\* buffer of 300 seconds before the cached expiry.
C39_NoneLeavesCacheAlone ==
    [][(callers[1].at # "returned" /\ callers'[1].at = "returned") =>
          /\ callers'[1].token = "None" => token_cache' = callers'[1].entry
          /\ (callers[1].at = "idle" /\ callers'[1].token # "None") =>
                /\ callers'[1].token = token_cache.access_token
                /\ now + 1 < token_cache.expires_at]_vars

====
